---- MODULE Spec2Model ----
(***************************************************************************)
(* Token lifecycle of the Django API: UserService (login, refresh_token,   *)
(* logout), RedisService (the cache namespaces jwt_token:, jwt_blacklist:, *)
(* user_sessions:) and the views with their decorators.                    *)
(*                                                                         *)
(* A token string is modelled by the claims it carries (type, user_id,     *)
(* jti, exp); a string that does not verify is the value Garbage.  Views   *)
(* hand Token OBJECTS to the service, the service's own signatures take    *)
(* strings: an argument is a record [form, tok] so both are modelled.      *)
(***************************************************************************)
EXTENDS Integers, FiniteSets, Sequences, TLC

\* ------------------------------------------------------------------ bounds
MaxJti == 6
MaxSteps == 3
RaceMaxSteps == 5

\* --------------------------------------------------------------- constants
Users == {"u1", "u2"}
UnknownEmail == "nobody"
ACCESS_TOKEN_LIFETIME == 300
REFRESH_TOKEN_LIFETIME == 86400
TOKEN_RECORD_TTL == 3600
SESSION_TTL == 3600
DEFAULT_BLACKLIST_EXPIRES_IN == 86400
REFRESH_BLACKLIST_EXPIRES_IN == 604800
HTTP_200_OK == 200
HTTP_400_BAD_REQUEST == 400
HTTP_401_UNAUTHORIZED == 401

\* seconds the clock may advance in one step of the environment
TickSteps == {299, 86400}
\* seconds that may pass inside blacklist_token between the decode of the
\* token and the later read of time.time()
Skews == {0, 2}
\* expires_in arguments given to a direct call of blacklist_token
ExpiresInArgs == {-5, 0, 86400}

VARIABLES now, steps, minted, issued, blacklist, jwt_token, user_sessions,
          consumed, last, directory, pending, cache

vars == <<now, steps, minted, issued, blacklist, jwt_token, user_sessions,
          consumed, last, directory, pending, cache>>

\* ------------------------------------------------------------------ tokens
NoTok == [typ |-> "none", user |-> "none", jti |-> 0, exp |-> 0]
Garbage == [typ |-> "garbage", user |-> "none", jti |-> 0, exp |-> 0]

Str(t) == [form |-> "str", tok |-> t]
Obj(t) == [form |-> "obj", tok |-> t]
NoArg == [form |-> "none", tok |-> NoTok]

Max(a, b) == IF a >= b THEN a ELSE b

\* Token(token).verify(): signature, exp (valid iff current_time < exp) and
\* token_type; a non-string argument cannot be decoded at all.
TokenValid(kind, arg, t) ==
    /\ arg.form = "str"
    /\ arg.tok.typ \in {"access", "refresh"}
    /\ t < arg.tok.exp
    /\ arg.tok.typ = kind

\* faulty variant: the jti does not depend on what was drawn before
FreshJti_Reused(n, k) == k

\* uuid4().hex of the k-th token built by a handler that starts at counter n
FreshJti(n, k) == n + k

\* Token.__init__ of a new token: token_type, exp = current_time + lifetime, jti
NewToken(kind, user, jti, exp) ==
    [typ |-> kind, user |-> user, jti |-> jti, exp |-> exp]

\* RefreshToken.for_user(user)
ForUser(user, t, n) ==
    NewToken("refresh", user, FreshJti(n, 1), t + REFRESH_TOKEN_LIFETIME)

\* faulty variant: the access token copies the jti claim of the refresh token too
AccessOf_CopiesJti(refresh, t, n) ==
    [typ |-> "access", user |-> refresh.user, jti |-> refresh.jti,
     exp |-> t + ACCESS_TOKEN_LIFETIME]

\* refresh.access_token: a new AccessToken (own jti, own exp) that copies the
\* other claims (user_id) of the refresh token
AccessOf(refresh, t, n) ==
    NewToken("access", refresh.user, FreshJti(n, 2), t + ACCESS_TOKEN_LIFETIME)

\* faulty variant: new_refresh['user_id'] is never set
RotatedRefresh_NoUser(refresh, user_id, t, n) ==
    [typ |-> "refresh", user |-> "none", jti |-> n + 1, exp |-> refresh.exp]

\* faulty variant: new_refresh keeps the exp that RefreshToken() set
RotatedRefresh_Sliding(refresh, user_id, t, n) ==
    NewToken("refresh", user_id, FreshJti(n, 1), t + REFRESH_TOKEN_LIFETIME)

\* new_refresh = RefreshToken(); new_refresh['user_id'] = user_id;
\* new_refresh['exp'] = refresh.payload.get('exp')
RotatedRefresh(refresh, user_id, t, n) ==
    NewToken("refresh", user_id, FreshJti(n, 1), refresh.exp)

\* ------------------------------------------------------------ RedisService
\* a cache entry set at time `at` with timeout `ttl` is readable while
\* current time < at + ttl
Live(entry, t) == t < entry.at + entry.ttl

Put(f, k, v) == [x \in (DOMAIN f) \cup {k} |-> IF x = k THEN v ELSE f[x]]
Del(f, k) == [x \in (DOMAIN f) \ {k} |-> f[x]]

\* cache.get(jwt_blacklist:<token>) is not None; `up` is FALSE when the cache
\* call raises
is_token_blacklisted(bl, arg, t, up) ==
    [ok |-> up,
     data |-> up /\ arg.tok \in DOMAIN bl /\ Live(bl[arg.tok], t)]

\* faulty variant: the token is decoded whatever its type
blacklist_token_AnyKind(bl, arg, expires_in, tDecode, tNow, up) ==
    IF ~(TokenValid("access", arg, tDecode) \/ TokenValid("refresh", arg, tDecode))
    THEN [ok |-> FALSE, msg |-> "Invalid token", bl |-> bl, calls |-> 0]
    ELSE IF ~up
    THEN [ok |-> FALSE, msg |-> "Error blacklisting token", bl |-> bl, calls |-> 1]
    ELSE [ok |-> TRUE, msg |-> "",
          bl |-> Put(bl, arg.tok,
                     [ttl |-> Max(arg.tok.exp - tNow, expires_in), at |-> tNow]),
          calls |-> 1]

\* faulty variant: a token that has an entry already is refused
blacklist_token_RefusesKnown(bl, arg, expires_in, tDecode, tNow, up) ==
    IF ~TokenValid("access", arg, tDecode)
    THEN [ok |-> FALSE, msg |-> "Invalid token", bl |-> bl, calls |-> 0]
    ELSE IF ~up \/ arg.tok \in DOMAIN bl
    THEN [ok |-> FALSE, msg |-> "Error blacklisting token", bl |-> bl, calls |-> 1]
    ELSE [ok |-> TRUE, msg |-> "",
          bl |-> Put(bl, arg.tok,
                     [ttl |-> Max(arg.tok.exp - tNow, expires_in), at |-> tNow]),
          calls |-> 1]

\* faulty variant: the timeout is expires_in, whatever lifetime the token has left
blacklist_token_ExpiresInOnly(bl, arg, expires_in, tDecode, tNow, up) ==
    IF ~TokenValid("access", arg, tDecode)
    THEN [ok |-> FALSE, msg |-> "Invalid token", bl |-> bl, calls |-> 0]
    ELSE IF ~up
    THEN [ok |-> FALSE, msg |-> "Error blacklisting token", bl |-> bl, calls |-> 1]
    ELSE [ok |-> TRUE, msg |-> "",
          bl |-> Put(bl, arg.tok, [ttl |-> expires_in, at |-> tNow]),
          calls |-> 1]

\* AccessToken(token) at tDecode, then time.time() at tNow >= tDecode, then
\* cache.set(key, "blacklisted", timeout = max(exp - current_time, expires_in))
blacklist_token(bl, arg, expires_in, tDecode, tNow, up) ==
    IF ~TokenValid("access", arg, tDecode)
    THEN [ok |-> FALSE, msg |-> "Invalid token", bl |-> bl, calls |-> 0]
    ELSE IF ~up
    THEN [ok |-> FALSE, msg |-> "Error blacklisting token", bl |-> bl, calls |-> 1]
    ELSE [ok |-> TRUE, msg |-> "",
          bl |-> Put(bl, arg.tok,
                     [ttl |-> Max(arg.tok.exp - tNow, expires_in), at |-> tNow]),
          calls |-> 1]

\* faulty variant: cache.add semantics, an existing record is kept
store_token_AddOnly(jt, key, access, refresh, expires_in, t, up) ==
    IF up
    THEN [ok |-> TRUE,
          jt |-> IF key \in DOMAIN jt THEN jt
                 ELSE Put(jt, key, [access |-> access, refresh |-> refresh,
                                    ttl |-> expires_in, at |-> t])]
    ELSE [ok |-> FALSE, jt |-> jt]

\* cache.set(jwt_token:<user_id>, json, timeout=expires_in)
store_token(jt, key, access, refresh, expires_in, t, up) ==
    IF up
    THEN [ok |-> TRUE,
          jt |-> Put(jt, key, [access |-> access, refresh |-> refresh,
                               ttl |-> expires_in, at |-> t])]
    ELSE [ok |-> FALSE, jt |-> jt]

\* cache.get(jwt_token:<user_id>)
get_token(jt, key, t, up) ==
    IF up /\ key \in DOMAIN jt /\ Live(jt[key], t)
    THEN [ok |-> TRUE, refresh |-> jt[key].refresh]
    ELSE [ok |-> FALSE, refresh |-> NoTok]

\* cache.set(user_sessions:<user_id>, json, timeout=expires_in)
store_user_session(us, key, expires_in, t, up) ==
    IF up THEN Put(us, key, [ttl |-> expires_in, at |-> t]) ELSE us

\* cache.get(user_sessions:<user_id>): "Session not found" when nothing is there
get_user_session(us, key, t, up) ==
    IF ~up THEN [ok |-> FALSE, msg |-> "Error getting user session"]
    ELSE IF key \in DOMAIN us /\ Live(us[key], t)
    THEN [ok |-> TRUE, msg |-> ""]
    ELSE [ok |-> FALSE, msg |-> "Session not found"]

\* cache.delete(jwt_token:..) then cache.delete(user_sessions:..) in one try:
\* how == "ok", "fail_first" (nothing deleted) or "fail_second"
clear_all_user_data(jt, us, key, how) ==
    [ok |-> how = "ok",
     jt |-> IF how = "fail_first" THEN jt ELSE Del(jt, key),
     us |-> IF how = "ok" THEN Del(us, key) ELSE us]

ClearOutcomes == {"ok", "fail_first", "fail_second"}

\* ------------------------------------------------------------- UserService
\* what the last handler did, for the properties below
NoLast ==
    [op |-> "none", via |-> "none", ok |-> FALSE, status |-> 0, msg |-> "",
     rarg |-> NoArg, aarg |-> NoArg, uid |-> "none",
     access |-> NoTok, refresh |-> NoTok, calls |-> 0, blWrite |-> "none",
     wasConsumed |-> FALSE, written |-> {}, fresh |-> FALSE,
     verified |-> FALSE, faults |-> {}, raised |-> FALSE, pwOk |-> FALSE,
     pre |-> FALSE, expires_in |-> 0, skew |-> 0]

\* the blacklist keys a handler has set: those whose entry differs afterwards
Written(before, after) ==
    {k \in DOMAIN after : k \notin DOMAIN before \/ after[k] # before[k]}

\* str(user_id) as a cache key: a user id, or (views.logout hands a Token
\* object as user_id) a token string, under which nothing is ever stored
TokenStringKey == "tokenstring"

BlWrite(b) == IF b.ok THEN "ok" ELSE "failed"

\* faulty variant: a failed session write ends the login with an error
UserService_login_SessionFatal(user, up1, up2) ==
    LET refresh == ForUser(user, now, minted)
        access == AccessOf(refresh, now, minted)
        st == store_token(jwt_token, user, access, refresh, TOKEN_RECORD_TTL, now, up1)
    IN  IF ~st.ok \/ ~up2
        THEN [ok |-> FALSE, msg |-> "Failed to store tokens", access |-> NoTok,
              refresh |-> NoTok, jt |-> st.jt, us |-> user_sessions, calls |-> 1,
              raised |-> FALSE]
        ELSE [ok |-> TRUE, msg |-> "", access |-> access, refresh |-> refresh,
              jt |-> st.jt,
              us |-> store_user_session(user_sessions, user, SESSION_TTL, now, up2),
              calls |-> 2, raised |-> FALSE]

\* UserService.login(data): data["user"] is the user the serializer resolved
UserService_login(user, up1, up2) ==
    LET refresh == ForUser(user, now, minted)
        access == AccessOf(refresh, now, minted)
        st == store_token(jwt_token, user, access, refresh, TOKEN_RECORD_TTL, now, up1)
    IN  IF ~st.ok
        THEN [ok |-> FALSE, msg |-> "Failed to store tokens", access |-> NoTok,
              refresh |-> NoTok, jt |-> jwt_token, us |-> user_sessions, calls |-> 1,
              raised |-> FALSE]
        ELSE [ok |-> TRUE, msg |-> "", access |-> access, refresh |-> refresh,
              jt |-> st.jt,
              us |-> store_user_session(user_sessions, user, SESSION_TTL, now, up2),
              calls |-> 2, raised |-> FALSE]

\* faulty variant: only TokenError is caught
Escapes_OnlyTokenError(exc) == exc # "TokenError"

\* except TokenError / except Exception closing the try of refresh_token and
\* of logout: does an exception of class exc raised in the body leave the
\* method?
Escapes(exc) == exc \notin {"TokenError", "TypeError", "Exception"}

\* a Result.error of refresh_token: no tokens, nothing written
RefreshFail(m, c) ==
    [ok |-> FALSE, msg |-> m, access |-> NoTok, refresh |-> NoTok,
     bl |-> blacklist, jt |-> jwt_token, calls |-> c,
     blWrite |-> "none", t |-> now, raised |-> FALSE, lookupFailed |-> FALSE]

\* the body of refresh_token raised exc: the Result the except clauses
\* return, unless the exception leaves the method
Raise(exc, m, c) == [RefreshFail(m, c) EXCEPT !.raised = Escapes(exc)]

\* faulty variant: a failed blacklisting of the old refresh token ends the call
RotateAfterCheck_BlacklistFatal(arg, up2, up3, d) ==
    IF ~TokenValid("refresh", arg, now)
    THEN Raise("TokenError", "Invalid refresh token", 1)
    ELSE
    LET new_access == AccessOf(arg.tok, now, minted)
        new_refresh == RotatedRefresh(arg.tok, arg.tok.user, now, minted)
        old == blacklist_token(blacklist, arg, REFRESH_BLACKLIST_EXPIRES_IN,
                               now, now + d, up2)
        st == store_token(jwt_token, arg.tok.user, new_access, new_refresh,
                          TOKEN_RECORD_TTL, now + d, up3)
    IN  IF ~old.ok
        THEN RefreshFail("Failed to blacklist old refresh token", 1 + old.calls)
        ELSE IF ~st.ok
        THEN RefreshFail("Failed to store tokens", 2 + old.calls)
        ELSE [ok |-> TRUE, msg |-> "", access |-> new_access,
              refresh |-> new_refresh, bl |-> old.bl, jt |-> st.jt,
              calls |-> 2 + old.calls, blWrite |-> BlWrite(old), t |-> now + d,
              raised |-> FALSE, lookupFailed |-> FALSE]

\* UserService.refresh_token from RefreshToken(refresh_token) on: decode,
\* new pair, blacklist the old refresh token, store the new pair
RotateAfterCheck(arg, up2, up3, d) ==
    IF ~TokenValid("refresh", arg, now)
    THEN Raise("TokenError", "Invalid refresh token", 1)
    ELSE
    LET user_id == arg.tok.user
        new_access == AccessOf(arg.tok, now, minted)
        new_refresh == RotatedRefresh(arg.tok, user_id, now, minted)
        old == blacklist_token(blacklist, arg, REFRESH_BLACKLIST_EXPIRES_IN,
                               now, now + d, up2)
        st == store_token(jwt_token, user_id, new_access, new_refresh,
                          TOKEN_RECORD_TTL, now + d, up3)
    IN  IF ~st.ok
        THEN [ok |-> FALSE, msg |-> "Failed to store tokens",
              access |-> NoTok, refresh |-> NoTok, bl |-> old.bl,
              jt |-> jwt_token, calls |-> 2 + old.calls,
              blWrite |-> BlWrite(old), t |-> now + d,
              raised |-> FALSE, lookupFailed |-> FALSE]
        ELSE [ok |-> TRUE, msg |-> "", access |-> new_access,
              refresh |-> new_refresh, bl |-> old.bl, jt |-> st.jt,
              calls |-> 2 + old.calls, blWrite |-> BlWrite(old), t |-> now + d,
              raised |-> FALSE, lookupFailed |-> FALSE]

\* UserService.refresh_token(refresh_token)
UserService_refresh_token(arg, up1, up2, up3, d) ==
    LET chk == is_token_blacklisted(blacklist, arg, now, up1)
    IN  IF arg.form # "str"
        THEN \* refresh_token[:20] on a Token object raises inside the try
             Raise("TypeError", "Failed to refresh token", 0)
        ELSE IF chk.ok /\ chk.data
        THEN RefreshFail("Refresh token has been revoked", 1)
        ELSE \* an error Result of the lookup is not a hit: the call goes on
             [RotateAfterCheck(arg, up2, up3, d) EXCEPT !.lookupFailed = ~chk.ok]

\* faulty variant: logout revokes every refresh token ever issued to the user,
\* not only the one held in the token record
UserService_logout_RevokesAll(key, aarg, up1, up2, up3, how, d) ==
    LET b1 == blacklist_token(blacklist, aarg, DEFAULT_BLACKLIST_EXPIRES_IN,
                              now, now + d, up1)
        g == get_token(jwt_token, key, now + d, up2)
        mine == {t \in issued : t.typ = "refresh" /\ t.user = key}
        all == [k \in DOMAIN b1.bl \cup mine |->
                  IF k \in mine
                  THEN [ttl |-> Max(k.exp - (now + d), DEFAULT_BLACKLIST_EXPIRES_IN),
                        at |-> now + d]
                  ELSE b1.bl[k]]
        c == clear_all_user_data(jwt_token, user_sessions, key, how)
    IN  [ok |-> TRUE, msg |-> "", bl |-> all, jt |-> c.jt, us |-> c.us,
         calls |-> b1.calls + 1 + Cardinality(mine) + 1,
         blWrite |-> IF g.ok THEN "ok" ELSE "none", t |-> now + d,
         raised |-> FALSE,
         faults |-> (IF up1 THEN {} ELSE {"blacklist_token"})
                    \cup (IF up2 THEN {} ELSE {"get_token"})
                    \cup (IF c.ok THEN {} ELSE {"clear_all_user_data"})]

\* UserService.logout(user_id, access_token); key == str(user_id)
UserService_logout(key, aarg, up1, up2, up3, how, d) ==
    LET b1 == blacklist_token(blacklist, aarg, DEFAULT_BLACKLIST_EXPIRES_IN,
                              now, now + d, up1)
        g == get_token(jwt_token, key, now + d, up2)
        b2 == IF g.ok
              THEN blacklist_token(b1.bl, Str(g.refresh), DEFAULT_BLACKLIST_EXPIRES_IN,
                                   now + d, now + d, up3)
              ELSE [ok |-> FALSE, msg |-> "", bl |-> b1.bl, calls |-> 0]
        c == clear_all_user_data(jwt_token, user_sessions, key, how)
    IN  [ok |-> TRUE, msg |-> "", bl |-> b2.bl, jt |-> c.jt, us |-> c.us,
         calls |-> b1.calls + 1 + b2.calls + 1,
         blWrite |-> IF g.ok THEN BlWrite(b2) ELSE "none", t |-> now + d,
         raised |-> FALSE,
         faults |-> (IF up1 THEN {} ELSE {"blacklist_token"})
                    \cup (IF up2 THEN {} ELSE {"get_token"})
                    \cup (IF g.ok /\ ~up3 THEN {"blacklist_token"} ELSE {})
                    \cup (IF c.ok THEN {} ELSE {"clear_all_user_data"})]

\* ---------------------------------------------------------------- requests
\* token strings a caller can present: every token handed out so far, and a
\* string that does not verify
Presentable == {Str(t) : t \in issued} \cup {Str(Garbage)}
\* a request header: absent/empty, or a presentable string
Headers == Presentable \cup {NoArg}

\* faulty variant: any token that verifies is let through, whatever its type
RouteProtectorPasses_AnyType(ah) ==
    TokenValid("access", ah, now) \/ TokenValid("refresh", ah, now)

\* route_protector: "Bearer <token>" that AccessToken(...) accepts
RouteProtectorPasses(ah) == TokenValid("access", ah, now)
\* extract_refresh_token: header present and RefreshToken(...) accepts it
ExtractRefreshPasses(rh) == TokenValid("refresh", rh, now)

\* "revoked" in error_message.lower()
MentionsRevoked(msg) == msg = "Refresh token has been revoked"

\* the two requests that may be in flight at once
Reqs == {1, 2}
\* a request slot before refresh_token has been entered
IdleReq == [pc |-> "idle", arg |-> NoArg, early |-> FALSE, decoded |-> FALSE,
            stored |-> FALSE, ok |-> FALSE, access |-> NoTok, refresh |-> NoTok]
NoPending == [q \in Reqs |-> IdleReq]

CanMint == minted + 2 <= MaxJti
\* every handler and every advance of the clock is one step of the run
CanStep == steps < MaxSteps

Init ==
    /\ now = 0
    /\ steps = 0
    /\ minted = 0
    /\ issued = {}
    /\ blacklist = [x \in {} |-> 0]
    /\ jwt_token = [x \in {} |-> 0]
    /\ user_sessions = [x \in {} |-> 0]
    /\ consumed = {}
    /\ last = NoLast
    /\ directory = Users
    /\ pending = NoPending
    /\ cache = [x \in {} |-> 0]

\* the clock advances between requests
Tick(d) ==
    /\ CanStep
    /\ now' = now + d
    /\ steps' = steps + 1
    /\ last' = NoLast
    /\ UNCHANGED <<minted, issued, blacklist, jwt_token, user_sessions, consumed,
                   directory, pending, cache>>

\* faulty variant: the password is not verified
LoginSerializerValid_NoPassword(email, pwOk) == email \in directory

\* LoginSerializer.is_valid(): the email is that of a User and
\* PasswordUtils.verify_password(password, user.password) accepts (pwOk)
LoginSerializerValid(email, pwOk) == email \in directory /\ pwOk

\* BaseRepository.delete(instance): the account leaves the User table
DeleteUser(u) ==
    /\ CanStep
    /\ u \in directory
    /\ directory' = directory \ {u}
    /\ steps' = steps + 1
    /\ last' = NoLast
    /\ UNCHANGED <<now, minted, issued, blacklist, jwt_token, user_sessions,
                   consumed, pending, cache>>

\* views.login behind serializer_injector(LoginSerializer)
Login(email, pwOk, up1, up2) ==
    /\ CanStep
    /\ CanMint
    /\ LET valid == LoginSerializerValid(email, pwOk)
           r == UserService_login(email, up1, up2)
           done == valid /\ r.ok
       IN  /\ last' = [NoLast EXCEPT !.op = "login", !.via = "http",
                          !.uid = email,
                          !.ok = done,
                          !.status = IF done THEN HTTP_200_OK
                                     ELSE HTTP_400_BAD_REQUEST,
                          !.msg = IF ~valid THEN "User not found" ELSE r.msg,
                          !.access = IF valid THEN r.access ELSE NoTok,
                          !.refresh = IF valid THEN r.refresh ELSE NoTok,
                          !.calls = IF valid THEN r.calls ELSE 0,
                          !.verified = valid, !.pwOk = pwOk,
                          !.raised = valid /\ r.raised,
                          !.faults =
                             (IF valid /\ ~up1 THEN {"store_token"} ELSE {})
                             \cup (IF valid /\ up1 /\ ~up2
                                   THEN {"store_user_session"} ELSE {})]
           /\ jwt_token' = IF valid THEN r.jt ELSE jwt_token
           /\ user_sessions' = IF valid THEN r.us ELSE user_sessions
           /\ issued' = IF done THEN issued \cup {r.access, r.refresh} ELSE issued
           /\ minted' = IF done THEN minted + 2 ELSE minted
    /\ steps' = steps + 1
    /\ UNCHANGED <<now, blacklist, consumed, directory, pending, cache>>

\* the part of a refresh common to the service call and the view
DoRefresh(via, ah, arg, r, status) ==
    /\ last' = [NoLast EXCEPT !.op = "refresh", !.via = via, !.ok = r.ok,
                   !.status = status, !.msg = r.msg, !.rarg = arg, !.aarg = ah,
                   !.uid = arg.tok.user, !.access = r.access,
                   !.refresh = r.refresh, !.calls = r.calls,
                   !.blWrite = r.blWrite, !.raised = r.raised,
                   !.faults = IF r.lookupFailed THEN {"is_token_blacklisted"}
                              ELSE {},
                   !.wasConsumed = arg.tok \in consumed,
                   !.fresh = r.ok /\ {r.access, r.refresh} \cap issued = {},
                   !.written = Written(blacklist, r.bl)]
    /\ blacklist' = r.bl
    /\ jwt_token' = r.jt
    /\ issued' = IF r.ok THEN issued \cup {r.access, r.refresh} ELSE issued
    /\ minted' = IF r.ok THEN minted + 2 ELSE minted
    /\ consumed' = IF r.ok THEN consumed \cup {arg.tok} ELSE consumed
    /\ now' = r.t
    /\ steps' = steps + 1
    /\ UNCHANGED <<user_sessions, directory, pending, cache>>

\* UserService.refresh_token called with the token string of its signature
ServiceRefresh(arg, up1, up2, up3, d) ==
    /\ CanStep
    /\ CanMint
    /\ DoRefresh("svc", NoArg, arg,
                 UserService_refresh_token(arg, up1, up2, up3, d), 0)

\* a request answered by a decorator before the view runs
Rejected(op, ah, rh, status, msg) ==
    /\ last' = [NoLast EXCEPT !.op = op, !.via = "gateway", !.status = status,
                   !.msg = msg, !.aarg = ah, !.rarg = rh]
    /\ steps' = steps + 1
    /\ UNCHANGED <<now, minted, issued, blacklist, jwt_token,
                   user_sessions, consumed, directory, pending, cache>>

\* views.refresh_token behind route_protector() and extract_refresh_token()
RefreshEndpoint(ah, rh, up1, up2, up3, d) ==
    /\ CanStep
    /\ CanMint
    /\ IF ~RouteProtectorPasses(ah)
       THEN Rejected("refresh", ah, rh, HTTP_401_UNAUTHORIZED, "Invalid token")
       ELSE IF ~ExtractRefreshPasses(rh)
       THEN Rejected("refresh", ah, rh, HTTP_400_BAD_REQUEST,
                     IF rh = NoArg THEN "Invalid refresh header"
                     ELSE "Invalid refresh token")
       ELSE LET r == UserService_refresh_token(Obj(rh.tok), up1, up2, up3, d)
            IN  DoRefresh("http", ah, rh, r,
                          IF r.ok THEN HTTP_200_OK
                          ELSE IF MentionsRevoked(r.msg) THEN HTTP_401_UNAUTHORIZED
                          ELSE HTTP_400_BAD_REQUEST)

\* the part of a logout common to the service call and the view
DoLogout(via, uid, rarg, aarg, r, status) ==
    /\ last' = [NoLast EXCEPT !.op = "logout", !.via = via, !.ok = r.ok,
                   !.status = status, !.msg = r.msg, !.rarg = rarg,
                   !.aarg = aarg, !.uid = uid, !.calls = r.calls,
                   !.blWrite = r.blWrite, !.raised = r.raised,
                   !.faults = r.faults,
                   !.wasConsumed = rarg.tok \in consumed,
                   !.written = Written(blacklist, r.bl)]
    /\ blacklist' = r.bl
    /\ jwt_token' = r.jt
    /\ user_sessions' = r.us
    /\ now' = r.t
    /\ steps' = steps + 1
    /\ UNCHANGED <<minted, issued, consumed, directory, pending, cache>>

\* UserService.logout called with the user id and token string of its signature
ServiceLogout(user_id, aarg, up1, up2, up3, how, d) ==
    /\ CanStep
    /\ DoLogout("svc", user_id, NoArg, aarg,
                UserService_logout(user_id, aarg, up1, up2, up3, how, d), 0)

\* views.logout behind route_protector(True) and extract_refresh_token():
\* service.logout(refresh_token, access_token) gets the two Token objects
LogoutEndpoint(ah, rh, up1, up2, up3, how, d) ==
    /\ CanStep
    /\ IF ~RouteProtectorPasses(ah)
       THEN Rejected("logout", ah, rh, HTTP_401_UNAUTHORIZED, "Invalid token")
       ELSE IF ~ExtractRefreshPasses(rh)
       THEN Rejected("logout", ah, rh, HTTP_400_BAD_REQUEST,
                     IF rh = NoArg THEN "Invalid refresh header"
                     ELSE "Invalid refresh token")
       ELSE LET r == UserService_logout(TokenStringKey, Obj(ah.tok),
                                        up1, up2, up3, how, d)
            IN  DoLogout("http", rh.tok.user, rh, ah, r,
                         IF r.ok THEN HTTP_200_OK ELSE HTTP_400_BAD_REQUEST)

\* RedisService.blacklist_token(token, expires_in) called on its own
BlacklistTokenCall(arg, expires_in, up, d) ==
    /\ CanStep
    /\ LET r == blacklist_token(blacklist, arg, expires_in, now, now + d, up)
       IN  /\ last' = [NoLast EXCEPT !.op = "blacklist_token", !.via = "svc",
                          !.ok = r.ok, !.msg = r.msg, !.aarg = arg,
                          !.calls = r.calls, !.blWrite = BlWrite(r),
                          !.written = Written(blacklist, r.bl),
                          !.pre = (arg.tok \in DOMAIN blacklist
                                   /\ Live(blacklist[arg.tok], now)),
                          !.expires_in = expires_in,
                          !.skew = IF r.calls > 0 THEN d ELSE 0,
                          !.faults = IF up THEN {} ELSE {"blacklist_token"}]
           /\ blacklist' = r.bl
           /\ now' = IF r.calls > 0 THEN now + d ELSE now
           /\ steps' = steps + 1
    /\ UNCHANGED <<minted, issued, jwt_token, user_sessions, consumed,
                   directory, pending, cache>>

\* the outcomes of a cache call that matter: it may raise only where it is made
Ups(made) == IF made THEN BOOLEAN ELSE {TRUE}
\* blacklist_token reads the clock only after AccessToken(token) accepted it
SkewsOf(arg) == IF TokenValid("access", arg, now) THEN Skews ELSE {0}

\* the X-Refresh-Token header is read only once route_protector has passed
RefreshHeadersOf(ah) == IF RouteProtectorPasses(ah) THEN Headers ELSE {NoArg}
\* and expires_in is used only once the token has been decoded
ExpiresInOf(arg) == IF TokenValid("access", arg, now) THEN ExpiresInArgs ELSE {0}

\* ---------------------------------------------- two refreshes in flight
\* a second request thread runs while the first is between two cache calls
CanRace == steps < RaceMaxSteps

\* UserService.refresh_token up to the result of is_token_blacklisted
RefreshCheck(q, arg, up1) ==
    /\ CanRace
    /\ pending[q].pc = "idle"
    /\ \A o \in Reqs : o < q => pending[o].pc # "idle"
    /\ LET chk == is_token_blacklisted(blacklist, arg, now, up1)
       IN  pending' = [pending EXCEPT ![q] =
               [IdleReq EXCEPT
                  !.pc = IF chk.ok /\ chk.data THEN "done" ELSE "checked",
                  !.arg = arg,
                  !.early = \A o \in Reqs : pending[o].pc # "done"]]
    /\ steps' = steps + 1
    /\ UNCHANGED <<now, minted, issued, blacklist, jwt_token, user_sessions,
                   consumed, last, directory, cache>>

\* UserService.refresh_token from the decode to the returned Result
RefreshRotate(q, up2, up3) ==
    /\ CanRace
    /\ CanMint
    /\ pending[q].pc = "checked"
    /\ LET arg == pending[q].arg
           r == RotateAfterCheck(arg, up2, up3, 0)
       IN  /\ pending' = [pending EXCEPT ![q] =
                  [@ EXCEPT !.pc = "done", !.ok = r.ok,
                            !.decoded = TokenValid("refresh", arg, now),
                            !.stored = up3,
                            !.access = r.access, !.refresh = r.refresh]]
           /\ blacklist' = r.bl
           /\ jwt_token' = r.jt
           /\ issued' = IF r.ok THEN issued \cup {r.access, r.refresh} ELSE issued
           /\ minted' = IF r.ok THEN minted + 2 ELSE minted
           /\ consumed' = IF r.ok THEN consumed \cup {arg.tok} ELSE consumed
    /\ steps' = steps + 1
    /\ UNCHANGED <<now, user_sessions, last, directory, cache>>

RaceNext ==
    \/ \E d \in TickSteps : Tick(d)
    \/ \E e \in Users \cup {UnknownEmail} :
       \E pwOk \in Ups(e \in directory) :
       \E up1 \in Ups(e \in directory /\ pwOk) :
       \E up2 \in Ups(e \in directory /\ pwOk /\ up1) :
          Login(e, pwOk, up1, up2)
    \/ \E q \in Reqs : \E a \in Presentable : \E up1 \in BOOLEAN :
          RefreshCheck(q, a, up1)
    \/ \E q \in Reqs :
       \E up2 \in Ups(TokenValid("access", pending[q].arg, now)) :
       \E up3 \in Ups(TokenValid("refresh", pending[q].arg, now)) :
          RefreshRotate(q, up2, up3)

RaceSpec == Init /\ [][RaceNext]_vars

Next ==
    \/ \E d \in TickSteps : Tick(d)
    \/ \E u \in Users : DeleteUser(u)
    \/ \E e \in Users \cup {UnknownEmail} :
       \E pwOk \in Ups(e \in directory) :
       \E up1 \in Ups(e \in directory /\ pwOk) :
       \E up2 \in Ups(e \in directory /\ pwOk /\ up1) :
          Login(e, pwOk, up1, up2)
    \/ \E a \in Presentable :
       \E up1 \in BOOLEAN :
       \E up2 \in Ups(TokenValid("access", a, now)) :
       \E up3 \in Ups(TokenValid("refresh", a, now)) :
          ServiceRefresh(a, up1, up2, up3, 0)
    \/ \E ah \in Headers :
       \E rh \in RefreshHeadersOf(ah) :
          RefreshEndpoint(ah, rh, TRUE, TRUE, TRUE, 0)
    \/ \E u \in Users, a \in Presentable :
       \E up1 \in Ups(TokenValid("access", a, now)) :
       \E up2 \in BOOLEAN, how \in ClearOutcomes :
          ServiceLogout(u, a, up1, up2, TRUE, how, 0)
    \/ \E ah \in Headers :
       \E rh \in RefreshHeadersOf(ah) :
          LogoutEndpoint(ah, rh, TRUE, TRUE, TRUE, "ok", 0)
    \/ \E a \in Presentable :
       \E e \in ExpiresInOf(a) :
       \E up \in Ups(TokenValid("access", a, now)) :
       \E d \in SkewsOf(a) :
          BlacklistTokenCall(a, e, up, d)

Spec == Init /\ [][Next]_vars

\* ------------------------------------------------- the cache, key by key
\* RedisService.__init__: the three key prefixes
token_prefix == "jwt_token:"
\* faulty variant: the blacklist shares the prefix of the token records
blacklist_prefix_Shared == "jwt_token:"
blacklist_prefix == "jwt_blacklist:"
user_sessions_prefix == "user_sessions:"

\* str(token), the text that follows the prefix in a blacklist key
TokenString(t) == "tok" \o ToString(t.jti)
\* what is formatted into a key as user_id: a user's id or, from views.logout,
\* the text of a token
CacheIds == Users \cup {TokenString(t) : t \in issued}

\* self.cache.set(key, value, timeout=timeout) at time t
cache_set(c, key, value, timeout, t) ==
    Put(c, key, [val |-> value, ttl |-> timeout, at |-> t])
\* self.cache.delete(key)
cache_delete(c, key) == Del(c, key)

\* u1 holds the pair of a login whose records have been cleared since
CacheInit ==
    /\ now = 0
    /\ steps = 0
    /\ minted = 2
    /\ issued = {ForUser("u1", 0, 0), AccessOf(ForUser("u1", 0, 0), 0, 0)}
    /\ blacklist = [x \in {} |-> 0]
    /\ jwt_token = [x \in {} |-> 0]
    /\ user_sessions = [x \in {} |-> 0]
    /\ consumed = {}
    /\ last = NoLast
    /\ directory = Users
    /\ pending = NoPending
    /\ cache = [x \in {} |-> 0]

\* one RedisService method called on the cache; only the cache changes
CacheCall(op, id, c) ==
    /\ CanStep
    /\ cache' = c
    /\ last' = [NoLast EXCEPT !.op = op, !.via = "svc", !.uid = id]
    /\ steps' = steps + 1
    /\ UNCHANGED <<now, minted, issued, blacklist, jwt_token, user_sessions,
                   consumed, directory, pending>>

\* RedisService.store_token(user_id, token_data, expires_in)
KeyStoreToken(id) ==
    CacheCall("store_token", id,
              cache_set(cache, token_prefix \o id, "json", TOKEN_RECORD_TTL, now))

\* RedisService.store_user_session(user_id, session_data, expires_in)
KeyStoreUserSession(id) ==
    CacheCall("store_user_session", id,
              cache_set(cache, user_sessions_prefix \o id, "json", SESSION_TTL, now))

\* RedisService.delete_user_session(user_id)
KeyDeleteUserSession(id) ==
    CacheCall("delete_user_session", id,
              cache_delete(cache, user_sessions_prefix \o id))

\* RedisService.clear_all_user_data(user_id)
KeyClearAllUserData(id) ==
    CacheCall("clear_all_user_data", id,
              cache_delete(cache_delete(cache, token_prefix \o id),
                           user_sessions_prefix \o id))

\* RedisService.blacklist_token(token, expires_in)
KeyBlacklistToken(t, expires_in) ==
    CacheCall("blacklist_token", TokenString(t),
              IF TokenValid("access", Str(t), now)
              THEN cache_set(cache, blacklist_prefix \o TokenString(t),
                             "blacklisted", Max(t.exp - now, expires_in), now)
              ELSE cache)

CacheNext ==
    \/ \E d \in TickSteps : Tick(d)
    \/ \E id \in CacheIds : KeyStoreToken(id)
    \/ \E id \in CacheIds : KeyStoreUserSession(id)
    \/ \E id \in CacheIds : KeyDeleteUserSession(id)
    \/ \E id \in CacheIds : KeyClearAllUserData(id)
    \/ \E t \in issued : \E e \in ExpiresInArgs : KeyBlacklistToken(t, e)

CacheSpec == CacheInit /\ [][CacheNext]_vars

\* ------------------------------------------------------------- properties
Blacklisted(tok) == tok \in DOMAIN blacklist /\ Live(blacklist[tok], now)

\* C1: single use of refresh tokens. Once refresh(r) has returned success,
\* a later refresh(r) or logout(r, *) that reaches the service is rejected
\* (the claim: as revoked) and returns no tokens.
C1_SingleUse ==
    (last.op \in {"refresh", "logout"} /\ last.wasConsumed)
        => (~last.ok /\ last.access = NoTok /\ last.refresh = NoTok)

\* C2: fail-closed refresh. When the blacklist write for the old refresh
\* token returned an error, refresh returns an error and no token pair.
C2_FailClosedRefresh ==
    (last.op = "refresh" /\ last.blWrite = "failed")
        => (~last.ok /\ last.access = NoTok /\ last.refresh = NoTok)

\* C3: logout revokes the presented refresh token. After the logout endpoint
\* has answered success for (r, a), the blacklist holds an entry for r.
C3_LogoutRevokes ==
    (last.op = "logout" /\ last.via = "http" /\ last.ok)
        => Blacklisted(last.rarg.tok)

\* C4: subject mismatch on logout. logout(r, a) with the subject of a
\* different from the subject of r returns an error and writes no blacklist
\* entry.
C4_SubjectMismatch ==
    (last.op = "logout" /\ last.via = "http"
        /\ last.aarg.tok.user # last.rarg.tok.user)
        => (~last.ok /\ last.written = {})

\* C5: subject continuity. Both tokens returned by a successful refresh(r)
\* carry the subject encoded in r.
C5_SubjectContinuity ==
    (last.op = "refresh" /\ last.ok)
        => /\ last.access.user = last.rarg.tok.user
           /\ last.refresh.user = last.rarg.tok.user

C5_Witness ==
    /\ last.op = "refresh" /\ last.ok
    /\ last.rarg.tok.user \in Users
    /\ last.access.typ = "access" /\ last.refresh.typ = "refresh"

\* C6: independence of pairs. All tokens handed out carry pairwise distinct
\* jti values (as many distinct jti as tokens handed out), and the two tokens
\* of one login differ in jti and both carry the logged-in user's id.
C6_IndependentPairs ==
    /\ \A t1, t2 \in issued : t1 # t2 => t1.jti # t2.jti
    /\ Cardinality({t.jti : t \in issued}) = minted
    /\ (last.op = "login" /\ last.ok)
          => /\ last.access.jti # last.refresh.jti
             /\ last.access.user = last.uid
             /\ last.refresh.user = last.uid

\* a second successful login of a user who already holds a pair
C6_Witness ==
    /\ last.op = "login" /\ last.ok
    /\ \E t \in issued : /\ t.typ = "refresh" /\ t.user = last.uid
                         /\ t # last.refresh

\* C7: fresh generation on refresh. The tokens returned by a successful
\* refresh(r) carry jti values different from r's and from each other, and
\* are no token that was handed out before (so they differ from the tokens
\* the caller presented).
C7_FreshGeneration ==
    (last.op = "refresh" /\ last.ok)
        => /\ last.access.jti # last.rarg.tok.jti
           /\ last.refresh.jti # last.rarg.tok.jti
           /\ last.access.jti # last.refresh.jti
           /\ last.access # last.aarg.tok
           /\ last.refresh # last.rarg.tok
           /\ last.fresh

C7_Witness ==
    /\ last.op = "refresh" /\ last.ok
    /\ last.rarg.tok \in issued
    /\ {last.access, last.refresh} \subseteq issued

\* C8: TTL correctness. A blacklist entry written by refresh or logout has a
\* TTL equal to the remaining lifetime (exp - now) of the revoked token.
C8_TtlIsRemainingLifetime ==
    (last.op \in {"refresh", "logout"})
        => \A k \in last.written : blacklist[k].ttl = k.exp - blacklist[k].at

\* C9: no blacklist entry is written with a negative TTL.
C9_NoNegativeTtl ==
    \A k \in DOMAIN blacklist : blacklist[k].ttl >= 0

\* C10: decode before store. refresh(r) with an expired refresh token r is
\* rejected without any call to the store.
C10_DecodeBeforeStore ==
    (last.op = "refresh" /\ last.rarg.tok.typ = "refresh"
        /\ last.rarg.tok.exp <= now)
        => (~last.ok /\ last.calls = 0)

\* C11: a refresh presenting a valid, not blacklisted refresh token whose
\* subject is no longer in the user directory is rejected and hands out no
\* tokens.
C11_RefreshResolvesSubject ==
    (/\ last.op = "refresh"
     /\ last.rarg.tok.typ = "refresh"
     /\ last.rarg.tok.user \notin directory)
    => (~last.ok /\ last.access = NoTok /\ last.refresh = NoTok)

\* C12: two refreshes of the same valid, not blacklisted refresh token that
\* both pass the blacklist check before either reaches its blacklist write
\* both return success, each with a new pair of its own.
C12_RefreshRace ==
    \A q1, q2 \in Reqs :
       (/\ q1 # q2
        /\ pending[q1].pc = "done" /\ pending[q2].pc = "done"
        /\ pending[q1].arg = pending[q2].arg
        /\ pending[q1].early /\ pending[q2].early
        /\ pending[q1].decoded /\ pending[q2].decoded
        /\ pending[q1].stored /\ pending[q2].stored)
       => (/\ pending[q1].ok /\ pending[q2].ok
           /\ Cardinality({pending[q1].access, pending[q1].refresh,
                           pending[q2].access, pending[q2].refresh}) = 4
           /\ {pending[q1].access, pending[q1].refresh,
               pending[q2].access, pending[q2].refresh} \subseteq issued)

C12_Witness ==
    /\ pending[1].pc = "done" /\ pending[2].pc = "done"
    /\ pending[1].arg = pending[2].arg
    /\ pending[1].arg.tok \in issued
    /\ pending[1].early /\ pending[2].early
    /\ pending[1].ok /\ pending[2].ok
    /\ pending[1].refresh # pending[2].refresh

C15_RefreshOnlyBlacklisting ==
    (last.op = "logout") => \A k \in last.written : k.typ = "refresh"

\* C16: login, refresh and logout always end by returning a Result, tagged
\* success (no error message) or error (a message, no tokens); no exception
\* leaves them, whatever the tokens presented and whichever store calls fail.
C16_TaggedResults ==
    (last.op \in {"login", "refresh", "logout"} /\ last.via \in {"svc", "http"})
    => /\ ~last.raised
       /\ last.ok <=> last.msg = ""
       /\ ~last.ok => (last.access = NoTok /\ last.refresh = NoTok)

\* the refresh view hands a Token object to refresh_token: the TypeError of
\* refresh_token[:20] is turned into a Result.error
C16_Witness ==
    /\ last.op = "refresh" /\ last.via = "http"
    /\ ~last.ok /\ ~last.raised
    /\ last.msg = "Failed to refresh token"
    /\ last.calls = 0

\* C17: on the refresh and logout endpoints a request whose Bearer token is
\* not a valid access token is answered 401, and one with a valid access
\* token whose X-Refresh-Token header is missing or does not decode as a
\* refresh token is answered 400; either way the view does not run, no store
\* call is made and the store is left as it was.
C17_GatewayCheckOrder ==
    [][(/\ steps' # steps
        /\ last'.op \in {"refresh", "logout"}
        /\ last'.via \in {"gateway", "http"}
        /\ \/ ~TokenValid("access", last'.aarg, now)
           \/ ~TokenValid("refresh", last'.rarg, now))
       => (/\ last'.status = IF ~TokenValid("access", last'.aarg, now)
                             THEN HTTP_401_UNAUTHORIZED
                             ELSE HTTP_400_BAD_REQUEST
           /\ last'.via = "gateway"
           /\ ~last'.ok /\ last'.calls = 0
           /\ UNCHANGED <<blacklist, jwt_token, user_sessions, issued, now>>)]_vars

C17_Witness ==
    /\ last.op \in {"refresh", "logout"}
    /\ last.via = "gateway"
    /\ last.status = HTTP_400_BAD_REQUEST
    /\ TokenValid("access", last.aarg, now)
    /\ last.rarg.tok.typ = "access"
    /\ DOMAIN jwt_token # {}

C19_RevokedSignalledDistinctly ==
    (last.op = "refresh" /\ last.via = "http" /\ ~last.ok)
    => (last.status = HTTP_401_UNAUTHORIZED
        <=> (last.wasConsumed \/ Blacklisted(last.rarg.tok)))

C21_SlidingExpiry ==
    (last.op = "refresh" /\ last.ok)
    => last.refresh.exp = now + REFRESH_TOKEN_LIFETIME

\* C21 amended: the refresh token returned by a successful refresh(r) carries
\* the expiry of r itself, whenever the refresh happens; only the new access
\* token's expiry is counted from the time of the refresh.
C21_FixedExpiry ==
    (last.op = "refresh" /\ last.ok)
    => /\ last.refresh.exp = last.rarg.tok.exp
       /\ last.access.exp = now + ACCESS_TOKEN_LIFETIME

\* a refresh some time after r was issued
C21_Witness ==
    /\ last.op = "refresh" /\ last.ok
    /\ now > 0
    /\ last.refresh.exp = last.rarg.tok.exp
    /\ last.refresh.exp < now + REFRESH_TOKEN_LIFETIME

C23_FailClosedLookup ==
    (last.op = "refresh" /\ "is_token_blacklisted" \in last.faults)
    => (~last.ok /\ last.access = NoTok /\ last.refresh = NoTok)

\* C24: a logout whose blacklist write for the stored refresh token was
\* attempted and failed returns an error, not success.
C24_LogoutReportsFailedRevocation ==
    (last.op = "logout" /\ last.blWrite = "failed") => ~last.ok

\* C25: a request to a protected endpoint that bears an access token with a
\* live blacklist entry is answered 401.
C25_BlacklistedAccessRejected ==
    (/\ last.op \in {"refresh", "logout"}
     /\ last.via \in {"gateway", "http"}
     /\ last.aarg.tok.typ = "access"
     /\ Blacklisted(last.aarg.tok))
    => last.status = HTTP_401_UNAUTHORIZED

\* C26: a blacklist entry, once set and while it has not expired, is never
\* changed by a later operation: neither its timeout nor the time it was set.
C26_WriteOnce ==
    [][\A k \in DOMAIN blacklist :
          Live(blacklist[k], now)
          => (k \in DOMAIN blacklist' /\ blacklist'[k] = blacklist[k])]_vars

\* the keys of the blacklist, and those of the token and session records
BlacklistKeys == {blacklist_prefix \o TokenString(t) : t \in issued}
RecordKeys ==
    {token_prefix \o id : id \in CacheIds}
    \cup {user_sessions_prefix \o id : id \in CacheIds}
\* a step neither creates, changes nor removes an entry under the keys K
SameUnder(K) ==
    \A k \in K : /\ k \in DOMAIN cache <=> k \in DOMAIN cache'
                 /\ k \in DOMAIN cache => cache'[k] = cache[k]

\* C27: store_token, store_user_session, delete_user_session and
\* clear_all_user_data never create, change or remove a blacklist entry,
\* blacklist_token never changes a token or session record, and no call
\* removes a blacklist entry, whichever ids and tokens the calls are given.
C27_NamespaceSeparation ==
    [][(steps' # steps)
       => /\ last'.op \in {"store_token", "store_user_session",
                           "delete_user_session", "clear_all_user_data"}
             => SameUnder(BlacklistKeys)
          /\ last'.op = "blacklist_token" => SameUnder(RecordKeys)
          /\ \A k \in BlacklistKeys : k \in DOMAIN cache => k \in DOMAIN cache']_vars

\* clear_all_user_data called with the text of a blacklisted token as user_id
\* (what views.logout passes) while the records of that id exist
C27_Witness ==
    /\ last.op = "clear_all_user_data"
    /\ blacklist_prefix \o last.uid \in DOMAIN cache
    /\ token_prefix \o last.uid \notin DOMAIN cache
    /\ \E id \in Users : token_prefix \o id \in DOMAIN cache

\* C28: after a logout for user u during which no cache call failed,
\* get_user_session(u) answers "Session not found"; and a logout whose
\* clear_all_user_data failed still returns success.
C28_SessionCleared ==
    (last.op = "logout" /\ last.via \in {"svc", "http"} /\ last.calls > 0)
    => /\ last.faults = {}
          => get_user_session(user_sessions, last.uid, now, TRUE).msg
             = "Session not found"
       /\ "clear_all_user_data" \in last.faults => last.ok

\* C29: the timeout given to a blacklist entry reaches at least to the token's
\* exp, so a token that was blacklisted and is not yet expired is reported
\* blacklisted by is_token_blacklisted.
C29_RevocationOutlivesToken ==
    \A k \in DOMAIN blacklist :
        /\ blacklist[k].at + blacklist[k].ttl >= k.exp
        /\ now < k.exp => is_token_blacklisted(blacklist, Str(k), now, TRUE).data

\* an entry whose timeout is exactly the token's remaining lifetime, looked up
\* later while the token is still unexpired
C29_Witness ==
    \E k \in DOMAIN blacklist :
        /\ blacklist[k].ttl = k.exp - blacklist[k].at
        /\ blacklist[k].at < now
        /\ now < k.exp
        /\ is_token_blacklisted(blacklist, Str(k), now, TRUE).data

\* C30: for every token that verifies and is unexpired, of access kind or of
\* refresh kind, blacklist_token returns success when the cache call succeeds
\* and is_token_blacklisted then reports the token blacklisted.
C30_BothKindsAccepted ==
    (/\ last.op = "blacklist_token"
     /\ last.aarg.form = "str"
     /\ last.aarg.tok.typ \in {"access", "refresh"}
     /\ now < last.aarg.tok.exp
     /\ last.faults = {})
    => /\ last.ok
       /\ is_token_blacklisted(blacklist, last.aarg, now, TRUE).data

\* C31: UserService.logout(user_id, access_token) sets blacklist entries for
\* at most the given access token and the refresh token held in the token
\* record of user_id; any other refresh token of that user (one of an earlier
\* login whose record was overwritten) gets no entry, and if it verifies and
\* was not blacklisted before, refresh_token accepts it after the logout.
C31_LogoutWriteSet ==
    [][(steps' # steps /\ last'.op = "logout" /\ last'.via = "svc")
       => LET g == get_token(jwt_token, last'.uid, now', TRUE)
              held == IF g.ok THEN {g.refresh} ELSE {}
          IN  /\ Written(blacklist, blacklist') \subseteq {last'.aarg.tok} \cup held
              /\ \A t \in issued :
                    (/\ t.typ = "refresh"
                     /\ t.user = last'.uid
                     /\ t \notin held
                     /\ ~is_token_blacklisted(blacklist, Str(t), now, TRUE).data
                     /\ TokenValid("refresh", Str(t), now'))
                    => /\ ~is_token_blacklisted(blacklist', Str(t), now', TRUE).data
                       /\ (UserService_refresh_token(Str(t), TRUE, TRUE, TRUE, 0).ok)']_vars

\* a logout of a user who logged in twice: the access token given was
\* blacklisted, the record is cleared, and the refresh tokens of both logins
\* still verify
C31_Witness ==
    /\ last.op = "logout" /\ last.via = "svc" /\ last.faults = {}
    /\ last.written = {last.aarg.tok}
    /\ last.uid \notin DOMAIN jwt_token
    /\ Cardinality({t \in issued : /\ t.typ = "refresh" /\ t.user = last.uid
                                    /\ TokenValid("refresh", Str(t), now)}) >= 2

====
